---- MODULE Spec2Model ----
(***************************************************************************)
(* Model of agent/system_metrics.go: the systemMetricsCollector, which     *)
(* creates one cedar system-metrics record (the session), opens one stream *)
(* per metricCollector, runs one timedCollect goroutine per stream and one *)
(* closeOnCancel goroutine (the watcher), and releases everything in       *)
(* cleanup.  Goroutines are interleaved one statement group at a time; the *)
(* remote client and the metric collectors are the environment, and each   *)
(* of their calls may succeed or fail.                                     *)
(***************************************************************************)
EXTENDS Integers, Sequences, FiniteSets, Bags, TLC

\* ------------------------------------------------------------------ bounds
MaxCollectors == 2      \* configurations have 1..MaxCollectors metric collectors
MaxTime == 1            \* the clock runs from 0 to MaxTime, in units of s.interval
MaxFaults == 2          \* the environment makes at most MaxFaults calls fail
MaxStarts == 2          \* the host calls Start at most MaxStarts times
RestartCollectors == 1  \* collectors of the instance that is started again

MaxDuration == 1        \* options hold durations from -1 to MaxDuration, and Minute
MaxBuffer == 1          \* options hold buffer sizes from -1 to MaxBuffer
MaxFields == 3          \* pagination is built for up to MaxFields fields
MaxValue == 2           \* pagination values and document values run from 0 to MaxValue
MaxDay == 4             \* times run over the UTC days 0 to MaxDay
MaxNumDays == 3         \* numDays runs from -1 to MaxNumDays

\* The hours of a day: a time.Time is counted in hours since day 0.
DayHours == 24

\* time.Minute, in seconds
Minute == 60

\* Valid dataFormat values.
dataFormatText == 0
dataFormatFTDC == 1
dataFormatBSON == 2
dataFormatJSON == 3
dataFormatCSV == 4

Metrics == 1..MaxCollectors
Callers == {1, 2}       \* the goroutines of the host that call Close
NoUpper == -1           \* a $switch case with no $lt bound
NoTimer == -1           \* timer.C holds no value and the timer is not armed

VARIABLES
    \* configuration (fixed by newSystemMetricsCollector)
    collectors,         \* number of configured metricCollectors (s.collectors)
    interval,           \* s.interval, in units of the clock
    \* systemMetricsCollectorOptions and its validation
    optsIn,             \* the options as the caller filled them in
    opts,               \* the options struct, which validate writes to
    valRet,             \* value returned by validate, kind "none" before the call
    ctorRet,            \* value returned by newSystemMetricsCollector
    clientCalls,        \* the client constructors called, in order
    \* the query builders of package stats
    call,               \* the builder called and its arguments
    result,             \* what the call returned, kind "none" before it returns
    \* fields of systemMetricsCollector
    id,                 \* s.id: 0 is the empty string, k > 0 the k-th record id
    closed,             \* s.closed
    streamingCancel,    \* s.streamingCancel: "nil" or "set"
    catcher,            \* s.catcher: bag of recorded errors
    mu,                 \* s.mu: "free", "watcher"
    streamWG,           \* s.stream (WaitGroup counter)
    closeWG,            \* s.close (WaitGroup counter)
    \* contexts
    outerCancelled,     \* the ctx given to Start is done
    streamingCancelled, \* cancel of streamingCtx was called
    \* Start
    startPc,            \* "idle", "streams", "ok", "err"
    startIdx,           \* index of the next collector of the range loop
    startRet,           \* value returned by Start
    starts,             \* calls of Start made so far
    openLog,            \* StreamSystemMetrics calls: [id, metric, ok]
    \* timedCollect, one per collector
    supPc,              \* "none", "select", "write", "close", "done", "exited"
    timerAt,            \* time at which timer.C becomes ready, or NoTimer
    data,               \* payload returned by Collect and not yet written (0: none)
    \* closeOnCancel and cleanup
    watchPc,            \* "none", "select", "wait", "session", "client",
                        \* "closed", "log", "done", "exited", "panicked"
    watchBranch,        \* "none", "outer", "streaming": the select case taken
    \* Close, one per caller
    closePc,            \* "idle", "cancel", "wait", "returned",
                        \* "rejected", "panicked"
    closeRet,           \* value returned by Close
    callPhase,          \* what cleanup had done when Close was called
    \* environment and history
    now,                \* the clock
    records,            \* number of records the remote client created
    collects,           \* per collector: number of Collect calls
    produced,           \* per collector: payloads returned by Collect
    appended,           \* per collector: payloads the stream received
    streamCloses,       \* per collector: number of stream.Close calls
    signals,            \* per collector: number of s.stream.Done calls
    closeSessionLog,    \* CloseSystemMetrics calls: [id, hadErrors]
    closeClientCalls,   \* number of CloseClient calls
    branchesRun,        \* number of select cases closeOnCancel has executed
    logged,             \* values passed to grip.Error by closeOnCancel
    injected            \* bag of the failures the environment produced

builderVars == <<call, result>>
config == <<collectors, interval, optsIn, opts, valRet, ctorRet, clientCalls, builderVars>>
fields == <<id, closed, streamingCancel, catcher, mu, streamWG, closeWG>>
ctxs == <<outerCancelled, streamingCancelled>>
startVars == <<startPc, startIdx, startRet, starts, openLog>>
supVars == <<supPc, timerAt, data>>
watchVars == <<watchPc, watchBranch>>
closeVars == <<closePc, closeRet, callPhase>>
supHist == <<collects, produced, appended, streamCloses, signals>>
cleanupHist == <<closeSessionLog, closeClientCalls, branchesRun, logged>>
vars == <<config, fields, ctxs, startVars, supVars, watchVars, closeVars, now,
          records, supHist, cleanupHist, injected>>

\* ------------------------------------------------------------------ errors
\* An error value: what failed and for which collector (0: none, the call belongs to the instance).
Err(kind, m) == [kind |-> kind, metric |-> m]

NoErr == [kind |-> "nil", metric |-> 0]

\* grip.Catcher.Add: a nil error is not recorded.
CatcherAdd(c, e) == IF e = NoErr THEN c ELSE c (+) SetToBag({e})

\* grip.Catcher.HasErrors
HasErrors(c) == c # EmptyBag

\* grip.Catcher.Resolve: nil without errors, else one error combining them all.
Resolve(c) == IF c = EmptyBag THEN [kind |-> "nil"] ELSE [kind |-> "combined", errors |-> c]

\* errors.New("system metrics collector already cancelled or closed")
AlreadyClosed == [kind |-> "alreadyClosed"]

\* The result of a call of the environment: the error it returns when it fails.
Outcome(ok, kind, m) == IF ok THEN NoErr ELSE Err(kind, m)

\* The results a call of the environment may have: it may fail, or panic, while
\* the environment has failures left.
Results(kinds) == IF BagCardinality(injected) < MaxFaults THEN {"ok"} \cup kinds ELSE {"ok"}

\* streamingCtx.Done() is readable: its own cancel was called or its parent is done.
StreamingDone == streamingCancelled \/ outerCancelled

\* ------------------------------------------------------------ validation
\* The formats a metricCollector of the options may report: two valid ones and
\* one that is not a dataFormat value.
Formats == {dataFormatText, dataFormatCSV, dataFormatCSV + 1}

\* dataFormat.validate: nil for the five dataFormat values, an error otherwise.
dataFormatValidate(f) ==
    IF f \in {dataFormatText, dataFormatFTDC, dataFormatBSON, dataFormatJSON, dataFormatCSV}
    THEN NoErr
    ELSE Err("format", 0)

Durations == (-1..MaxDuration) \cup {Minute}

\* The values of systemMetricsCollectorOptions.  Task, Comm and Conn are TRUE
\* when the pointer or interface is not nil; Collectors holds the Format() of
\* each metricCollector.
OptionsSpace ==
    [Task : BOOLEAN,
     Interval : Durations,
     Collectors : UNION {[1..n -> Formats] : n \in 0..MaxCollectors},
     Comm : BOOLEAN,
     Conn : BOOLEAN,
     BufferTimedFlushInterval : -1..MaxDuration,
     MaxBufferSize : -1..MaxBuffer]

\* systemMetricsCollectorOptions.validate: the error it returns and the
\* options it leaves behind.  The checks run in the order of the code, and a
\* zero Interval is replaced by dflt before the checks that follow it.
validateImpl(o, dflt) ==
    LET n == IF o.Interval = 0 THEN [o EXCEPT !.Interval = dflt] ELSE o
    IN  IF ~o.Task THEN [err |-> Err("task", 0), opts |-> o]
        ELSE IF o.Interval < 0 THEN [err |-> Err("interval", 0), opts |-> o]
        ELSE IF Len(n.Collectors) = 0 THEN [err |-> Err("collectors", 0), opts |-> n]
        ELSE IF (~n.Comm /\ ~n.Conn) \/ (n.Comm /\ n.Conn)
             THEN [err |-> Err("client", 0), opts |-> n]
        ELSE IF n.BufferTimedFlushInterval < 0 THEN [err |-> Err("flush", 0), opts |-> n]
        ELSE IF n.MaxBufferSize < 0 THEN [err |-> Err("buffer", 0), opts |-> n]
        ELSE [err |-> NoErr, opts |-> n]

\* A variant that leaves a zero Interval as it is.
validate_KeepZero(o) == validateImpl(o, 0)

\* A variant that checks Comm and Conn before everything else.
validate_ClientFirst(o) ==
    IF o.Comm = o.Conn THEN [err |-> Err("client", 0), opts |-> o]
    ELSE validateImpl(o, Minute)

validate(o) == validateImpl(o, Minute)

\* A variant of the constructor that ignores the error of validate.
ValidationFailed_Ignored(err) == FALSE

\* if err != nil, after opts.validate()
ValidationFailed(err) == err # NoErr

\* The client constructor newSystemMetricsCollector calls for options o.
ClientFor(o) == IF o.Comm THEN "setupCedarClient" ELSE "NewSystemMetricsClientWithExistingConnection"

\* What newSystemMetricsCollector returns: the instance or nil, and the error.
Built == [kind |-> "nil", instance |-> TRUE]
NotBuilt(kind) == [kind |-> kind, instance |-> FALSE]

\* newSystemMetricsCollector calls opts.validate() and returns nil and the
\* wrapped error when it fails.
CallValidate ==
    /\ valRet.kind = "none"
    /\ valRet' = validate(opts).err
    /\ opts' = validate(opts).opts
    /\ ctorRet' = IF ValidationFailed(validate(opts).err)
                  THEN NotBuilt("invalidOptions")
                  ELSE ctorRet
    /\ UNCHANGED <<collectors, interval, optsIn, clientCalls, builderVars, fields, ctxs,
                   startVars, supVars, watchVars, closeVars, now, records, supHist,
                   cleanupHist, injected>>

\* newSystemMetricsCollector builds the instance from the options and creates
\* its client, from the communicator if there is one and from the connection
\* otherwise; it returns nil and the error when the client cannot be created.
ctorNewClient ==
    /\ valRet.kind # "none"
    /\ ctorRet.kind = "none"
    /\ collectors' = Len(opts.Collectors)
    /\ clientCalls' = Append(clientCalls, ClientFor(opts))
    /\ \E ok \in {r = "ok" : r \in Results({"err"})} :
        /\ ctorRet' = IF ok THEN Built ELSE NotBuilt("newClient")
        /\ injected' = IF ok THEN injected
                       ELSE injected (+) SetToBag({Err("newClient", 0)})
    /\ UNCHANGED <<interval, optsIn, opts, valRet, builderVars, fields, ctxs, startVars,
                   supVars, watchVars, closeVars, now, records, supHist, cleanupHist>>

\* Options that validate accepts and leaves as they are, with n collectors.
AcceptedOptions(n) ==
    [Task |-> TRUE, Interval |-> Minute, Collectors |-> [i \in 1..n |-> dataFormatText],
     Comm |-> TRUE, Conn |-> FALSE, BufferTimedFlushInterval |-> 0, MaxBufferSize |-> 0]

\* ------------------------------------------------- package stats: pagination
\* The names, operators and values of paginationField, and the values a
\* document holds for the fields.
FieldNames == {"date", "task", "test"}
Operators == {"$gt", "$lt"}
FieldValues == 0..MaxValue

PaginationFields == [Field : FieldNames, Operator : Operators, Value : FieldValues]

\* A bson.M with no key, and bson.M m after m[k] = v.
EmptyM == <<>>
Put(m, k, v) == [x \in DOMAIN m \cup {k} |-> IF x = k THEN v ELSE m[x]]

\* A field set to a value in a query document is an equality constraint.
Equals(v) == [op |-> "$eq", value |-> v]

\* The range loop of buildPaginationOrBranches from its i-th field on, with
\* baseConstraints and the branches built so far.
RECURSIVE orBranches(_, _, _, _)
orBranches(fs, i, baseConstraints, branches) ==
    IF i > Len(fs) THEN branches
    ELSE orBranches(fs, i + 1,
                    Put(baseConstraints, fs[i].Field, Equals(fs[i].Value)),
                    Append(branches,
                           Put(baseConstraints, fs[i].Field,
                               [op |-> fs[i].Operator, value |-> fs[i].Value])))

\* A variant that starts every branch from an empty document.
buildPaginationOrBranches_NoBase(fs) ==
    [i \in 1..Len(fs) |->
        Put(EmptyM, fs[i].Field, [op |-> fs[i].Operator, value |-> fs[i].Value])]

buildPaginationOrBranches(fs) == orBranches(fs, 1, EmptyM, <<>>)

\* buildPaginationOrBranches is called with call.fields.
CallBuildPaginationOrBranches ==
    /\ call.fn = "buildPaginationOrBranches"
    /\ result.kind = "none"
    /\ result' = [kind |-> "value", value |-> buildPaginationOrBranches(call.fields)]
    /\ UNCHANGED <<collectors, interval, optsIn, opts, valRet, ctorRet, clientCalls, call,
                   fields, ctxs, startVars, supVars, watchVars, closeVars, now, records,
                   supHist, cleanupHist, injected>>

\* The calls of buildPaginationOrBranches: up to MaxFields fields, and a
\* document to try the branches on.
PaginationCalls ==
    [fn : {"buildPaginationOrBranches"},
     fields : UNION {[1..n -> PaginationFields] : n \in 0..MaxFields},
     doc : [FieldNames -> FieldValues]]

\* ------------------------------------------------------ package stats: dates
\* The values of time.Time: midnight and noon UTC of the days 0 to MaxDay.
Times == {d * DayHours + h : d \in 0..MaxDay, h \in {0, DayHours \div 2}}

\* util.GetUTCDay: midnight UTC of the day of t.
GetUTCDay(t) == t - (t % DayHours)

\* The for loop of dateBoundaries from boundary on: while past(boundary, end)
\* does not hold, boundary is appended and moved on by duration.
RECURSIVE boundaryLoop(_, _, _, _, _)
boundaryLoop(boundary, end, duration, boundaries, inclusive) ==
    IF boundary < end \/ (inclusive /\ boundary = end)
    THEN boundaryLoop(boundary + duration, end, duration, Append(boundaries, boundary),
                      inclusive)
    ELSE boundaries

\* dateBoundaries: numDays <= 0 counts as 1; start and end are brought to
\* their UTC days; inclusive is FALSE in the code (boundary.Before(end)).
dateBoundariesImpl(start, end, numDays, inclusive) ==
    LET n == IF numDays <= 0 THEN 1 ELSE numDays
    IN  boundaryLoop(GetUTCDay(start), GetUTCDay(end), n * DayHours, <<>>, inclusive)

\* A variant whose loop also takes a boundary equal to end.
dateBoundaries_Inclusive(start, end, numDays) == dateBoundariesImpl(start, end, numDays, TRUE)

dateBoundaries(start, end, numDays) == dateBoundariesImpl(start, end, numDays, FALSE)

\* dateBoundaries is called.
CallDateBoundaries ==
    /\ call.fn = "dateBoundaries"
    /\ result.kind = "none"
    /\ result' = [kind |-> "value",
                  value |-> dateBoundaries(call.start, call.end, call.numDays)]
    /\ UNCHANGED <<collectors, interval, optsIn, opts, valRet, ctorRet, clientCalls, call,
                   fields, ctxs, startVars, supVars, watchVars, closeVars, now, records,
                   supHist, cleanupHist, injected>>

\* The branch of the $switch for boundaries[i]: its case holds for the dates
\* from boundaries[i] up to the next boundary, or for all dates from the last
\* boundary on, and it yields boundaries[i].
SwitchBranch(boundaries, i) ==
    [gte |-> boundaries[i],
     lt |-> IF i < Len(boundaries) THEN boundaries[i + 1] ELSE NoUpper,
     then |-> boundaries[i]]

\* buildAddFieldsDateStage: the input date itself when numDays <= 1, and
\* otherwise a $switch with one branch per boundary; the assignment to
\* branches[len(boundaries)-1] panics when there is no boundary.
buildAddFieldsDateStage(start, end, numDays) ==
    IF numDays <= 1
    THEN [kind |-> "value", value |-> [stage |-> "ref"]]
    ELSE LET boundaries == dateBoundaries(start, end, numDays)
         IN  IF Len(boundaries) = 0
             THEN [kind |-> "panic"]
             ELSE [kind |-> "value",
                   value |-> [stage |-> "switch",
                              branches |-> [i \in 1..Len(boundaries) |->
                                               SwitchBranch(boundaries, i)]]]

\* buildAddFieldsDateStage is called.
CallBuildAddFieldsDateStage ==
    /\ call.fn = "buildAddFieldsDateStage"
    /\ result.kind = "none"
    /\ result' = buildAddFieldsDateStage(call.start, call.end, call.numDays)
    /\ UNCHANGED <<collectors, interval, optsIn, opts, valRet, ctorRet, clientCalls, call,
                   fields, ctxs, startVars, supVars, watchVars, closeVars, now, records,
                   supHist, cleanupHist, injected>>

\* The calls of dateBoundaries and of buildAddFieldsDateStage; date is the
\* date of a document to try the stage on.
DateCalls ==
    [fn : {"dateBoundaries", "buildAddFieldsDateStage"},
     start : Times, end : Times, numDays : -1..MaxNumDays, date : Times]

\* ------------------------------------------------------------------ Init
\* The fields of an instance with n collectors.
InitFields(n) ==
    /\ collectors = n
    /\ interval = 1
    /\ id = 0
    /\ closed = FALSE
    /\ streamingCancel = "nil"
    /\ catcher = EmptyBag
    /\ mu = "free"
    /\ streamWG = 0
    /\ closeWG = 0
    /\ outerCancelled = FALSE
    /\ streamingCancelled = FALSE
    /\ startPc = "idle"
    /\ startIdx = 1
    /\ startRet = [kind |-> "none"]
    /\ starts = 1
    /\ openLog = <<>>
    /\ supPc = [m \in Metrics |-> "none"]
    /\ timerAt = [m \in Metrics |-> NoTimer]
    /\ data = [m \in Metrics |-> 0]
    /\ watchPc = "none"
    /\ watchBranch = "none"
    /\ closePc = [c \in Callers |-> "idle"]
    /\ closeRet = [c \in Callers |-> [kind |-> "none"]]
    /\ callPhase = [c \in Callers |-> "none"]
    /\ now = 0
    /\ records = 0
    /\ collects = [m \in Metrics |-> 0]
    /\ produced = [m \in Metrics |-> <<>>]
    /\ appended = [m \in Metrics |-> <<>>]
    /\ streamCloses = [m \in Metrics |-> 0]
    /\ signals = [m \in Metrics |-> 0]
    /\ closeSessionLog = <<>>
    /\ closeClientCalls = 0
    /\ branchesRun = 0
    /\ logged = <<>>
    /\ injected = EmptyBag

\* newSystemMetricsCollector has validated the options and built the instance
\* from them.
Init ==
    /\ optsIn \in {AcceptedOptions(n) : n \in 1..MaxCollectors}
    /\ opts = validate(optsIn).opts
    /\ valRet = validate(optsIn).err
    /\ ctorRet = Built
    /\ clientCalls = <<ClientFor(opts)>>
    /\ call = [fn |-> "none"]
    /\ result = [kind |-> "none"]
    /\ InitFields(Len(opts.Collectors))

\* ------------------------------------------------------------------ Start
\* s.id, err = s.client.CreateSystemMetricsRecord(...), then either the error
\* return or streamingCtx, s.streamingCancel = context.WithCancel(ctx).
\* deriveFirst is FALSE in the code: the context is derived after the error
\* check.
CreateRecordStep(deriveFirst) ==
    /\ startPc = "idle"
    /\ \E ok \in {r = "ok" : r \in Results({"err"})} :
        IF ok
        THEN /\ records' = records + 1
             /\ id' = records + 1
             /\ streamingCancel' = "set"
             /\ streamingCancelled' = FALSE
             /\ startPc' = "streams"
             /\ startIdx' = 1
             /\ UNCHANGED <<injected, startRet>>
        ELSE /\ id' = 0
             /\ startPc' = "err"
             /\ startRet' = Err("createRecord", 0)
             /\ injected' = injected (+) SetToBag({Err("createRecord", 0)})
             /\ streamingCancel' = IF deriveFirst THEN "set" ELSE streamingCancel
             /\ UNCHANGED <<records, streamingCancelled, startIdx>>
    /\ UNCHANGED <<config, closed, catcher, mu, streamWG, closeWG, outerCancelled,
                   starts, openLog, supVars, watchVars, closeVars, now, supHist,
                   cleanupHist>>

\* A variant that derives the streaming context before creating the record.
StartCreateRecord_DeriveFirst == CreateRecordStep(TRUE)

StartCreateRecord == CreateRecordStep(FALSE)

\* Id: s.id, the id field of the MetricDataOpts given to StreamSystemMetrics.
\* A variant that passes another id:
StreamId_Other == id + 1

StreamId == id

\* One iteration of the range loop: StreamSystemMetrics, then either the
\* error return or s.stream.Add(1) and go s.timedCollect(...), whose first
\* statement is time.NewTimer(0).
\* cancelOnErr is TRUE in the code: s.streamingCancel() precedes the error
\* return.
StreamStep(cancelOnErr) ==
    /\ startPc = "streams"
    /\ startIdx <= collectors
    /\ \E ok \in {r = "ok" : r \in Results({"err"})} :
        /\ openLog' = Append(openLog, [id |-> StreamId, metric |-> startIdx,
                                        format |-> opts.Collectors[startIdx], ok |-> ok])
        /\ IF ok
           THEN /\ streamWG' = streamWG + 1
                /\ supPc' = [supPc EXCEPT ![startIdx] = "select"]
                /\ timerAt' = [timerAt EXCEPT ![startIdx] = now]
                /\ startIdx' = startIdx + 1
                /\ UNCHANGED <<streamingCancel, streamingCancelled, startPc, startRet,
                               injected>>
           ELSE /\ streamingCancelled' = (streamingCancelled \/ cancelOnErr)
                /\ streamingCancel' = "nil"
                /\ startPc' = "err"
                /\ startRet' = Err("openStream", startIdx)
                /\ injected' = injected (+) SetToBag({Err("openStream", startIdx)})
                /\ UNCHANGED <<streamWG, supPc, timerAt, startIdx>>
    /\ UNCHANGED <<config, id, closed, catcher, mu, closeWG, outerCancelled, data,
                   starts, watchVars, closeVars, now, records, supHist, cleanupHist>>

\* A variant that returns the error without cancelling the streaming context.
StartStream_NoCancel == StreamStep(FALSE)

StartStream == StreamStep(TRUE)

\* After the loop: s.close.Add(1); go s.closeOnCancel(ctx, streamingCtx); return nil.
StartWatcher ==
    /\ startPc = "streams"
    /\ startIdx > collectors
    /\ closeWG' = closeWG + 1
    /\ watchPc' = "select"
    /\ startPc' = "ok"
    /\ startRet' = NoErr
    /\ UNCHANGED <<config, id, closed, streamingCancel, catcher, mu, streamWG, ctxs,
                   startIdx, starts, openLog, supVars, watchBranch, closeVars, now, records, supHist,
                   cleanupHist, injected>>

\* ---------------------------------------------------------- timedCollect
\* The payload the collector returns at its k-th Collect call.
Payload(k) == k

\* case <-timer.C: data, err := mc.Collect(), and what follows a failure:
\* s.catcher.Add(...) and return into the deferred function, which records a
\* recovered panic.  cancelOnErr is FALSE in the code: a failure cancels nothing.
CollectStep(m, cancelOnErr, pcAfterErr) ==
    /\ supPc[m] = "select"
    /\ timerAt[m] # NoTimer
    /\ timerAt[m] <= now
    /\ collects' = [collects EXCEPT ![m] = @ + 1]
    /\ \E out \in Results({"err", "panic"}) :
        IF out = "ok"
        THEN /\ data' = [data EXCEPT ![m] = Payload(collects[m] + 1)]
             /\ produced' = [produced EXCEPT ![m] = Append(@, Payload(collects[m] + 1))]
             /\ supPc' = [supPc EXCEPT ![m] = "write"]
             /\ timerAt' = [timerAt EXCEPT ![m] = NoTimer]
             /\ UNCHANGED <<catcher, injected, streamingCancelled>>
        ELSE /\ catcher' = CatcherAdd(catcher, Err(IF out = "err" THEN "collect" ELSE "panic", m))
             /\ injected' = injected (+) SetToBag({Err(IF out = "err" THEN "collect" ELSE "panic", m)})
             /\ supPc' = [supPc EXCEPT ![m] = IF out = "err" THEN pcAfterErr ELSE "close"]
             /\ timerAt' = [timerAt EXCEPT ![m] = IF out = "err" /\ pcAfterErr = "select"
                                                   THEN now + interval ELSE NoTimer]
             /\ streamingCancelled' = (streamingCancelled \/ cancelOnErr)
             /\ UNCHANGED <<data, produced>>
    /\ UNCHANGED <<config, id, closed, streamingCancel, mu, streamWG, closeWG,
                   outerCancelled, startVars, watchVars, closeVars, now, records,
                   appended, streamCloses, signals, cleanupHist>>

\* A variant that cancels the streaming context when a collection fails.
timedCollectCollect_FailFast(m) == CollectStep(m, TRUE, "close")

\* A variant that keeps the loop going after a failed collection.
timedCollectCollect_Retry(m) == CollectStep(m, FALSE, "select")

timedCollectCollect(m) == CollectStep(m, FALSE, "close")

\* _ = timer.Reset(s.interval): the time at which timer.C delivers next.
\* A variant that resets the timer to no delay:
TimerReset_Zero == now

TimerReset == now + interval

\* _, err = stream.Write(data), then either s.catcher.Add(...) and return, or
\* timer.Reset(s.interval).  (A panic inside the loop takes the same path out
\* of it wherever it is raised; it is raised at Collect.)
WriteStep(m, pcAfterErr) ==
    /\ supPc[m] = "write"
    /\ \E out \in Results({"err"}) :
        IF out = "ok"
        THEN /\ appended' = [appended EXCEPT ![m] = Append(@, data[m])]
             /\ timerAt' = [timerAt EXCEPT ![m] = TimerReset]
             /\ supPc' = [supPc EXCEPT ![m] = "select"]
             /\ UNCHANGED <<catcher, injected>>
        ELSE /\ catcher' = CatcherAdd(catcher, Err("write", m))
             /\ injected' = injected (+) SetToBag({Err("write", m)})
             /\ supPc' = [supPc EXCEPT ![m] = pcAfterErr]
             /\ timerAt' = [timerAt EXCEPT ![m] = IF pcAfterErr = "select"
                                                   THEN now + interval ELSE NoTimer]
             /\ UNCHANGED appended
    /\ data' = [data EXCEPT ![m] = 0]
    /\ UNCHANGED <<config, id, closed, streamingCancel, mu, streamWG, closeWG, ctxs,
                   startVars, watchVars, closeVars, now, records, collects, produced,
                   streamCloses, signals, cleanupHist>>

\* A variant that keeps the loop going after a failed write.
timedCollectWrite_Continue(m) == WriteStep(m, "select")

timedCollectWrite(m) == WriteStep(m, "close")

\* case <-ctx.Done(): return
CtxDoneStep(m, pcAfter) ==
    /\ supPc[m] = "select"
    /\ StreamingDone
    /\ supPc' = [supPc EXCEPT ![m] = pcAfter]
    /\ UNCHANGED <<config, fields, ctxs, startVars, timerAt, data, watchVars,
                   closeVars, now, records, supHist, cleanupHist, injected>>

\* A variant whose return on ctx.Done() skips stream.Close().
timedCollectCtxDone_NoClose(m) == CtxDoneStep(m, "done")

timedCollectCtxDone(m) == CtxDoneStep(m, "close")

\* deferred: s.catcher.Add(errors.Wrap(stream.Close(), ...))
timedCollectClose(m) ==
    /\ supPc[m] = "close"
    /\ \E ok \in {r = "ok" : r \in Results({"err"})} :
        /\ catcher' = CatcherAdd(catcher, Outcome(ok, "streamClose", m))
        /\ injected' = IF ok THEN injected
                       ELSE injected (+) SetToBag({Err("streamClose", m)})
    /\ streamCloses' = [streamCloses EXCEPT ![m] = @ + 1]
    /\ supPc' = [supPc EXCEPT ![m] = "done"]
    /\ UNCHANGED <<config, id, closed, streamingCancel, mu, streamWG, closeWG, ctxs,
                   startVars, timerAt, data, watchVars, closeVars, now, records,
                   collects, produced, appended, signals, cleanupHist>>

\* The counter of s.stream after the deferred s.stream.Done().
StreamDone_Missing(n) == n

StreamDone(n) == n - 1

\* deferred: timer.Stop(); s.stream.Done()
timedCollectDone(m) ==
    /\ supPc[m] = "done"
    /\ timerAt' = [timerAt EXCEPT ![m] = NoTimer]
    /\ streamWG' = StreamDone(streamWG)
    /\ signals' = [signals EXCEPT ![m] = @ + 1]
    /\ supPc' = [supPc EXCEPT ![m] = "exited"]
    /\ UNCHANGED <<config, id, closed, streamingCancel, catcher, mu, closeWG, ctxs,
                   startVars, data, watchVars, closeVars, now, records, collects,
                   produced, appended, streamCloses, cleanupHist, injected>>

\* --------------------------------------------------------- closeOnCancel
\* The position of closeOnCancel after a select case and its cleanup: both
\* cases end in return, the outer one after logging.
AfterCleanup_Loop(branch) == IF branch = "outer" THEN "log" ELSE "select"

AfterCleanup(branch) == IF branch = "outer" THEN "log" ELSE "done"

\* case <-outerCtx.Done(): s.streamingCancel(), a call that panics if the
\* field is nil, then s.cleanup() is entered.
closeOnCancelOuter ==
    /\ watchPc = "select"
    /\ outerCancelled
    /\ IF streamingCancel = "nil"
       THEN /\ watchPc' = "panicked"
            /\ UNCHANGED streamingCancelled
       ELSE /\ watchPc' = "wait"
            /\ streamingCancelled' = TRUE
    /\ watchBranch' = "outer"
    /\ branchesRun' = branchesRun + 1
    /\ UNCHANGED <<config, fields, outerCancelled, startVars, supVars, closeVars, now,
                   records, supHist, closeSessionLog, closeClientCalls, logged, injected>>

\* case <-streamingCtx.Done(): s.cleanup() is entered.
closeOnCancelStreaming ==
    /\ watchPc = "select"
    /\ StreamingDone
    /\ watchBranch' = "streaming"
    /\ branchesRun' = branchesRun + 1
    /\ watchPc' = "wait"
    /\ UNCHANGED <<config, fields, ctxs, startVars, supVars, closeVars, now, records,
                   supHist, closeSessionLog, closeClientCalls, logged, injected>>

\* grip.Error(s.catcher.Resolve())
closeOnCancelLog ==
    /\ watchPc = "log"
    /\ logged' = Append(logged, Resolve(catcher))
    /\ watchPc' = "done"
    /\ UNCHANGED <<config, fields, ctxs, startVars, supVars, watchBranch, closeVars,
                   now, records, supHist, closeSessionLog, closeClientCalls,
                   branchesRun, injected>>

\* The counter of s.close after the deferred s.close.Done().
CloseDone_Missing(n) == n

CloseDone(n) == n - 1

\* return, which runs the deferred s.close.Done()
closeOnCancelDone ==
    /\ watchPc = "done"
    /\ closeWG' = CloseDone(closeWG)
    /\ watchPc' = "exited"
    /\ UNCHANGED <<config, id, closed, streamingCancel, catcher, mu, streamWG, ctxs,
                   startVars, supVars, watchBranch, closeVars, now, records, supHist,
                   cleanupHist, injected>>

\* ---------------------------------------------------------------- cleanup
\* s.stream.Wait() returns: the counter of s.stream is zero.
StreamWaitOver_NoWait == TRUE

StreamWaitOver == streamWG = 0

\* s.stream.Wait(); s.mu.Lock()
cleanupEnter ==
    /\ watchPc = "wait"
    /\ StreamWaitOver
    /\ mu = "free"
    /\ mu' = "watcher"
    /\ watchPc' = "session"
    /\ UNCHANGED <<config, id, closed, streamingCancel, catcher, streamWG, closeWG,
                   ctxs, startVars, supVars, watchBranch, closeVars, now, records,
                   supHist, cleanupHist, injected>>

\* s.client is set by newSystemMetricsCollector and never cleared.
ClientSet == TRUE

\* The hadErrors argument of CloseSystemMetrics: s.catcher.HasErrors().
HadErrorsArg_Never(c) == FALSE

HadErrorsArg(c) == HasErrors(c)

\* if s.id != "": a record was created.
SessionCreated_Inverted == id = 0

SessionCreated == id # 0

\* if s.id != "" { s.catcher.Add(errors.Wrap(s.client.CloseSystemMetrics(ctx,
\* s.id, s.catcher.HasErrors()), ...)) }
\* pcAfterErr is "client" in the code: the error is added to the catcher and
\* cleanup goes on to CloseClient.
CloseSessionStep(pcAfterErr) ==
    /\ watchPc = "session"
    /\ IF ClientSet /\ SessionCreated
       THEN \E ok \in {r = "ok" : r \in Results({"err"})} :
            /\ closeSessionLog' = Append(closeSessionLog,
                                         [id |-> id, hadErrors |-> HadErrorsArg(catcher)])
            /\ catcher' = CatcherAdd(catcher, Outcome(ok, "closeSession", 0))
            /\ injected' = IF ok THEN injected
                           ELSE injected (+) SetToBag({Err("closeSession", 0)})
            /\ watchPc' = IF ok THEN "client" ELSE pcAfterErr
       ELSE /\ UNCHANGED <<closeSessionLog, catcher, injected>>
            /\ watchPc' = "client"
    /\ UNCHANGED <<config, id, closed, streamingCancel, mu, streamWG, closeWG, ctxs,
                   startVars, supVars, watchBranch, closeVars, now, records, supHist,
                   closeClientCalls, branchesRun, logged>>

\* A variant that skips CloseClient when CloseSystemMetrics fails.
cleanupCloseSession_StopOnError == CloseSessionStep("closed")

cleanupCloseSession == CloseSessionStep("client")

\* s.catcher.Add(errors.Wrap(s.client.CloseClient(), ...))
cleanupCloseClient ==
    /\ watchPc = "client"
    /\ IF ClientSet
       THEN \E ok \in {r = "ok" : r \in Results({"err"})} :
            /\ closeClientCalls' = closeClientCalls + 1
            /\ catcher' = CatcherAdd(catcher, Outcome(ok, "closeClient", 0))
            /\ injected' = IF ok THEN injected
                           ELSE injected (+) SetToBag({Err("closeClient", 0)})
       ELSE UNCHANGED <<closeClientCalls, catcher, injected>>
    /\ watchPc' = "closed"
    /\ UNCHANGED <<config, id, closed, streamingCancel, mu, streamWG, closeWG, ctxs,
                   startVars, supVars, watchBranch, closeVars, now, records, supHist,
                   closeSessionLog, branchesRun, logged>>

\* The value cleanup stores in s.closed.
ClosedMark_Forgotten == FALSE

ClosedMark == TRUE

\* s.closed = true, then the deferred cancel() and s.mu.Unlock(), and the
\* return into closeOnCancel.
cleanupSetClosed ==
    /\ watchPc = "closed"
    /\ closed' = ClosedMark
    /\ mu' = "free"
    /\ watchPc' = AfterCleanup(watchBranch)
    /\ UNCHANGED <<config, id, streamingCancel, catcher, streamWG, closeWG, ctxs,
                   startVars, supVars, watchBranch, closeVars, now, records, supHist,
                   cleanupHist, injected>>

\* ------------------------------------------------------------------ Close
\* s.mu.Lock(); if s.closed { s.mu.Unlock(); return errors.New(...) }; s.mu.Unlock()
CheckStep(c, from) ==
    /\ closePc[c] = from
    /\ \A d \in Callers : d < c => closePc[d] # "idle"
    /\ startPc \in {"ok", "err"}
    /\ mu = "free"
    /\ IF closed
       THEN /\ closePc' = [closePc EXCEPT ![c] = "rejected"]
            /\ closeRet' = [closeRet EXCEPT ![c] = AlreadyClosed]
       ELSE /\ closePc' = [closePc EXCEPT ![c] = "cancel"]
            /\ UNCHANGED closeRet
    /\ UNCHANGED <<config, fields, ctxs, startVars, supVars, watchVars, callPhase, now,
                   records, supHist, cleanupHist, injected>>

\* A call of Close that finds s.mu free.
CloseCheck(c) == CheckStep(c, "idle")

\* How far cleanup is: not entered, entered and not over, or over.
CleanupPhase ==
    IF closed THEN "closed"
    ELSE IF watchPc \in {"wait", "session", "client", "closed"} THEN "cleanup"
    ELSE "running"

\* Close is called and reaches s.mu.Lock(), which blocks while cleanup holds
\* the mutex.
CloseCall(c) ==
    /\ closePc[c] = "idle"
    /\ \A d \in Callers : d < c => closePc[d] # "idle"
    /\ startPc \in {"ok", "err"}
    /\ closePc' = [closePc EXCEPT ![c] = "lock"]
    /\ callPhase' = [callPhase EXCEPT ![c] = CleanupPhase]
    /\ UNCHANGED <<config, fields, ctxs, startVars, supVars, watchVars, closeRet, now,
                   records, supHist, cleanupHist, injected>>

\* s.mu.Lock() returns; the check of s.closed follows.
CloseLocked(c) == CheckStep(c, "lock")

\* s.streamingCancel(): a call of a nil func panics.
CloseCancel(c) ==
    /\ closePc[c] = "cancel"
    /\ IF streamingCancel = "nil"
       THEN /\ closePc' = [closePc EXCEPT ![c] = "panicked"]
            /\ UNCHANGED streamingCancelled
       ELSE /\ closePc' = [closePc EXCEPT ![c] = "wait"]
            /\ streamingCancelled' = TRUE
    /\ UNCHANGED <<config, fields, outerCancelled, startVars, supVars, watchVars,
                   closeRet, callPhase, now, records, supHist, cleanupHist, injected>>

\* s.close.Wait() returns: the counter of s.close is zero.
CloseWaitOver_NoWait == TRUE

CloseWaitOver == closeWG = 0

\* s.close.Wait(); return s.catcher.Resolve()
CloseReturn(c) ==
    /\ closePc[c] = "wait"
    /\ CloseWaitOver
    /\ closeRet' = [closeRet EXCEPT ![c] = Resolve(catcher)]
    /\ closePc' = [closePc EXCEPT ![c] = "returned"]
    /\ UNCHANGED <<config, fields, ctxs, startVars, supVars, watchVars, callPhase, now,
                   records, supHist, cleanupHist, injected>>

\* ------------------------------------------------------------ environment
\* The host cancels the context it gave to Start.
CancelOuter ==
    /\ ~outerCancelled
    /\ outerCancelled' = TRUE
    /\ UNCHANGED <<config, fields, streamingCancelled, startVars, supVars, watchVars,
                   closeVars, now, records, supHist, cleanupHist, injected>>

\* One unit of time passes.  Time is observed through the timers alone, so
\* the clock is advanced only while some armed timer is not yet due.
Tick ==
    /\ now < MaxTime
    /\ \E m \in Metrics : timerAt[m] > now
    /\ now' = now + 1
    /\ UNCHANGED <<config, fields, ctxs, startVars, supVars, watchVars, closeVars,
                   records, supHist, cleanupHist, injected>>

\* ------------------------------------------------------------------- Next
Next ==
    \/ StartCreateRecord
    \/ StartStream
    \/ StartWatcher
    \/ \E m \in Metrics : timedCollectCollect(m)
    \/ \E m \in Metrics : timedCollectWrite(m)
    \/ \E m \in Metrics : timedCollectCtxDone(m)
    \/ \E m \in Metrics : timedCollectClose(m)
    \/ \E m \in Metrics : timedCollectDone(m)
    \/ closeOnCancelOuter
    \/ closeOnCancelStreaming
    \/ cleanupEnter
    \/ cleanupCloseSession
    \/ cleanupCloseClient
    \/ cleanupSetClosed
    \/ closeOnCancelLog
    \/ closeOnCancelDone
    \/ \E c \in Callers : CloseCheck(c)
    \/ \E c \in Callers : CloseCancel(c)
    \/ \E c \in Callers : CloseReturn(c)
    \/ CancelOuter
    \/ Tick

Spec == Init /\ [][Next]_vars

\* The host calls Start once more on the same instance, after the earlier call
\* has returned and the goroutines it launched are gone.  Start reads neither
\* s.closed nor s.id before it creates a record.
StartAgain ==
    /\ starts < MaxStarts
    /\ startPc \in {"ok", "err"}
    /\ \A m \in Metrics : supPc[m] \in {"none", "exited"}
    /\ watchPc \in {"none", "exited"}
    /\ \A c \in Callers : closePc[c] \notin {"cancel", "wait"}
    /\ starts' = starts + 1
    /\ startPc' = "idle"
    /\ startRet' = [kind |-> "none"]
    /\ UNCHANGED <<config, fields, ctxs, startIdx, openLog, supVars, watchVars,
                   closeVars, now, records, supHist, cleanupHist, injected>>

RestartNext == Next \/ StartAgain

\* The instance under a host that may call Start more than once.
RestartInit == Init /\ collectors <= RestartCollectors

RestartSpec == RestartInit /\ [][RestartNext]_vars

\* The instance with the calls of Close split in two steps, the call and the
\* return of s.mu.Lock(), so that a call made while cleanup holds s.mu is seen.
CloseCallNext ==
    \/ Next
    \/ \E c \in Callers : CloseCall(c)
    \/ \E c \in Callers : CloseLocked(c)

CloseCallSpec == Init /\ [][CloseCallNext]_vars

\* A query builder of package stats is about to be called; no instance exists.
BuilderInit ==
    /\ call \in PaginationCalls \cup DateCalls
    /\ result = [kind |-> "none"]
    /\ optsIn = AcceptedOptions(1)
    /\ opts = optsIn
    /\ valRet = [kind |-> "none"]
    /\ ctorRet = [kind |-> "none"]
    /\ clientCalls = <<>>
    /\ InitFields(0)

BuilderNext ==
    \/ CallBuildPaginationOrBranches
    \/ CallDateBoundaries
    \/ CallBuildAddFieldsDateStage

\* The query builders applied to every value of their arguments.
BuilderSpec == BuilderInit /\ [][BuilderNext]_vars

\* The caller has filled in the options and validate has not been called yet;
\* no instance has been built.
ValidateInit ==
    /\ optsIn \in OptionsSpace
    /\ opts = optsIn
    /\ valRet = [kind |-> "none"]
    /\ ctorRet = [kind |-> "none"]
    /\ clientCalls = <<>>
    /\ call = [fn |-> "none"]
    /\ result = [kind |-> "none"]
    /\ InitFields(0)

ValidateNext == CallValidate \/ ctorNewClient

\* newSystemMetricsCollector applied to every value of the options.
ValidateSpec == ValidateInit /\ [][ValidateNext]_vars

\* Every goroutine that can take a step eventually takes one; a select whose
\* ctx.Done() case stays ready eventually takes it (the runtime chooses among
\* the ready cases at random).  The host is free to never call or cancel.
Fairness ==
    /\ WF_vars(StartStream)
    /\ WF_vars(StartWatcher)
    /\ \A m \in Metrics :
        /\ WF_vars(timedCollectCollect(m))
        /\ WF_vars(timedCollectWrite(m))
        /\ SF_vars(timedCollectCtxDone(m))
        /\ WF_vars(timedCollectClose(m))
        /\ WF_vars(timedCollectDone(m))
    /\ WF_vars(closeOnCancelOuter \/ closeOnCancelStreaming)
    /\ WF_vars(cleanupEnter)
    /\ WF_vars(cleanupCloseSession)
    /\ WF_vars(cleanupCloseClient)
    /\ WF_vars(cleanupSetClosed)
    /\ WF_vars(closeOnCancelLog)
    /\ WF_vars(closeOnCancelDone)
    /\ \A c \in Callers :
        /\ WF_vars(CloseCancel(c))
        /\ WF_vars(CloseReturn(c))

FairSpec == Init /\ [][Next]_vars /\ Fairness

\* ------------------------------------------------- vocabulary of the claims
Nil == [kind |-> "nil"]

\* The entries of bag b whose kind is in kinds.
KindsOf(b, kinds) == [e \in {x \in BagToSet(b) : x.kind \in kinds} |-> b[e]]

\* The entries of bag b that belong to collector m.
OfMetric(b, m) == [e \in {x \in BagToSet(b) : x.metric = m} |-> b[e]]

\* Failures that happen inside a timedCollect goroutine.
SupKinds == {"collect", "write", "panic", "streamClose"}

\* Failures that happen inside cleanup.
CleanupKinds == {"closeSession", "closeClient"}

\* Every call of the environment has succeeded so far.
AllSucceeded == injected = EmptyBag

\* Collector m is configured.
Configured(m) == m <= collectors

IsPrefix(s, t) == Len(s) <= Len(t) /\ \A i \in 1..Len(s) : s[i] = t[i]

\* ---------------------------------------------------------------------- C1
\* C1: with at least one collector and every call of the environment
\* succeeding, a Close that follows a successful Start is not rejected unless
\* the outer context was cancelled or another Close was called, it eventually
\* returns, and it returns nil.
C1_StartThenCloseTerminatesClean ==
    /\ [](\A c \in Callers :
            /\ (closePc[c] = "returned" /\ AllSucceeded) => closeRet[c] = Nil
            /\ (closePc[c] = "rejected" /\ ~outerCancelled)
                   => \E d \in Callers : d # c /\ closePc[d] # "idle"
            /\ (closePc[c] = "panicked") => ~AllSucceeded)
    /\ \A c \in Callers :
          (startPc = "ok" /\ closePc[c] = "cancel")
              ~> (closePc[c] = "returned" \/ ~AllSucceeded)

C1_Witness ==
    /\ collectors = 2
    /\ AllSucceeded
    /\ ~outerCancelled
    /\ closePc[1] = "returned"
    /\ closeRet[1] = Nil
    /\ \A m \in Metrics : Len(appended[m]) >= 1

\* ---------------------------------------------------------------------- C2
\* C2: a Close called after another Close has returned is rejected with the
\* already-closed error in that very step, and the step changes no field of
\* the instance, cancels nothing and makes no CloseSystemMetrics, CloseClient
\* or stream Close call.
C2_SecondCloseRejected ==
    [][\A c \in Callers :
          (/\ closePc[c] = "idle"
           /\ closePc'[c] # "idle"
           /\ \E d \in Callers : d # c /\ closePc[d] = "returned")
          => /\ closePc'[c] = "rejected"
             /\ closeRet'[c] = AlreadyClosed
             /\ UNCHANGED <<fields, ctxs, supVars, watchVars, supHist, cleanupHist>>]_vars

C2_Witness ==
    /\ closePc[1] = "returned"
    /\ closePc[2] = "rejected"
    /\ closeRet[2] = AlreadyClosed
    /\ ~outerCancelled
    /\ Len(closeSessionLog) = 1
    /\ closeClientCalls = 1

\* ---------------------------------------------------------------------- C3
\* C3: once Start has succeeded and the outer context is cancelled, the
\* record is eventually closed, Close called or not; CloseSystemMetrics is
\* never called twice, and each call passes hadErrors = TRUE exactly when the
\* catcher holds an error at the moment of the call.
C3_CancelFinalizesOnce ==
    /\ [](Len(closeSessionLog) <= 1)
    /\ [][Len(closeSessionLog') > Len(closeSessionLog)
            => closeSessionLog'[Len(closeSessionLog')].hadErrors = HasErrors(catcher)]_vars
    /\ (startPc = "ok" /\ outerCancelled) ~> (Len(closeSessionLog) = 1)

C3_Witness ==
    /\ startPc = "ok"
    /\ outerCancelled
    /\ \A c \in Callers : closePc[c] = "idle"
    /\ watchBranch = "outer"
    /\ watchPc = "exited"
    /\ Len(closeSessionLog) = 1
    /\ closeSessionLog[1].hadErrors
    /\ HasErrors(KindsOf(catcher, SupKinds))

\* ---------------------------------------------------------------------- C4
\* C4: closeOnCancel never executes more than one select case, and has
\* executed exactly one when it is past cleanup; CloseSystemMetrics and
\* CloseClient are each called at most once, however Close calls and the
\* cancellation of the outer context interleave.
C4_OneBranchOneRelease ==
    /\ branchesRun <= 1
    /\ watchPc \in {"wait", "session", "client", "closed", "log", "done", "exited"}
          => branchesRun = 1
    /\ Len(closeSessionLog) <= 1
    /\ closeClientCalls <= 1

C4_Witness ==
    /\ outerCancelled
    /\ \A c \in Callers : closePc[c] = "returned"
    /\ watchPc = "exited"
    /\ branchesRun = 1
    /\ Len(closeSessionLog) = 1
    /\ closeClientCalls = 1

\* ---------------------------------------------------------------------- C5
\* C5: when CloseSystemMetrics has been called, every configured collector's
\* goroutine has exited after closing its stream, and from then on no Collect
\* and no Write happens.
C5_NoFinalizeWhileStreaming ==
    /\ [](Len(closeSessionLog) > 0
            => \A m \in Metrics :
                  Configured(m) => supPc[m] = "exited" /\ streamCloses[m] = 1)
    /\ [][Len(closeSessionLog') > 0
            => collects' = collects /\ appended' = appended]_vars

C5_Witness ==
    /\ collectors = 2
    /\ Len(closeSessionLog) = 1
    /\ \A m \in Metrics : supPc[m] = "exited" /\ Len(appended[m]) >= 1

\* ---------------------------------------------------------------------- C6
\* A step in which collector m's Collect or Write fails (or panics).
FailureStep(m) ==
    /\ supPc[m] \in {"select", "write"}
    /\ supPc'[m] = "close"
    /\ injected' # injected

\* Collector k itself had a Collect or Write failure or a panic.
OwnFailure(k) == HasErrors(KindsOf(OfMetric(injected, k), {"collect", "write", "panic"}))

\* C6: a step in which one collector's Collect or Write fails cancels neither
\* context and leaves every other collector's goroutine, timer, payload and
\* stream as they were; and a goroutine has left its loop only if the
\* streaming context is done or its own Collect or Write failed.
C6_FailureIsolated ==
    /\ [][\A m \in Metrics :
            FailureStep(m)
            => /\ UNCHANGED ctxs
               /\ \A k \in Metrics \ {m} :
                     /\ supPc'[k] = supPc[k]
                     /\ timerAt'[k] = timerAt[k]
                     /\ data'[k] = data[k]
                     /\ collects'[k] = collects[k]
                     /\ produced'[k] = produced[k]
                     /\ appended'[k] = appended[k]
                     /\ streamCloses'[k] = streamCloses[k]]_vars
    /\ [](\A k \in Metrics :
            supPc[k] \in {"close", "done", "exited"} => StreamingDone \/ OwnFailure(k))

C6_Witness ==
    \E m, k \in Metrics :
        /\ m # k
        /\ BagIn(Err("collect", m), injected)
        /\ collects[m] = 1
        /\ supPc[m] = "exited"
        /\ ~StreamingDone
        /\ supPc[k] = "select"
        /\ appended[k] = <<Payload(1), Payload(2)>>

\* ---------------------------------------------------------------------- C7
\* C7: once collector m's Collect has failed, its goroutine is in or past
\* the deferred function, holds no payload, and the stream has received one
\* payload less than the number of Collect calls (so no further Collect and
\* no Write followed); the catcher holds that failure once, and once the
\* goroutine has exited with a successful stream Close it is the only error
\* recorded for m.
C7_CollectFailureNoRetry ==
    \A m \in Metrics :
        BagIn(Err("collect", m), injected)
        => /\ supPc[m] \in {"close", "done", "exited"}
           /\ data[m] = 0
           /\ Len(appended[m]) = collects[m] - 1
           /\ CopiesIn(Err("collect", m), catcher) = 1
           /\ (supPc[m] = "exited" /\ ~BagIn(Err("streamClose", m), injected))
                 => BagCardinality(OfMetric(catcher, m)) = 1

C7_Witness ==
    \E m \in Metrics :
        /\ BagIn(Err("collect", m), injected)
        /\ collects[m] = 2
        /\ appended[m] = <<Payload(1)>>
        /\ supPc[m] = "exited"
        /\ BagCardinality(OfMetric(catcher, m)) = 1

\* ---------------------------------------------------------------------- C8
\* C8: what a stream has received is a prefix of what its collector's
\* successful Collect calls returned, the payloads being the first, second,
\* ... of the collector in that order; the stream is behind by at most one
\* payload, by none while the goroutine waits in select, and while the
\* goroutine is about to write, by the payload it holds.
C8_StreamIsPrefixOfCollected ==
    \A m \in Metrics :
        /\ produced[m] = [i \in 1..Len(produced[m]) |-> Payload(i)]
        /\ IsPrefix(appended[m], produced[m])
        /\ Len(produced[m]) <= Len(appended[m]) + 1
        /\ supPc[m] = "select" => appended[m] = produced[m]
        /\ supPc[m] = "write"
              => /\ Len(produced[m]) = Len(appended[m]) + 1
                 /\ data[m] = produced[m][Len(produced[m])]

C8_Witness ==
    \E m \in Metrics :
        /\ appended[m] = <<Payload(1), Payload(2)>>
        /\ produced[m] = appended[m]
        /\ now = 1

\* ---------------------------------------------------------------------- C9
\* C9: the hadErrors argument of every CloseSystemMetrics call is TRUE
\* exactly if some timedCollect goroutine had a failure (Collect, Write,
\* stream Close or panic) during the run, whichever select case of
\* closeOnCancel led to cleanup.
C9_HadErrorsFlag ==
    \A i \in DOMAIN closeSessionLog :
        closeSessionLog[i].hadErrors = HasErrors(KindsOf(injected, SupKinds))

C9_Witness ==
    /\ Len(closeSessionLog) = 1
    /\ closeSessionLog[1].hadErrors
    /\ watchBranch = "streaming"
    /\ \E m \in Metrics : BagIn(Err("streamClose", m), injected)
    /\ BagCardinality(injected) = 1

\* --------------------------------------------------------------------- C10
\* C10: a Close that is not rejected returns the combination of exactly the
\* failures that happened in the timedCollect goroutines and in cleanup, each
\* as often as it happened, and nil if there was none.
C10_CloseReturnsAllErrors ==
    \A c \in Callers :
        closePc[c] = "returned"
        => closeRet[c] = Resolve(KindsOf(injected, SupKinds \cup CleanupKinds))

C10_Witness ==
    \E c \in Callers :
        /\ closePc[c] = "returned"
        /\ closeRet[c].kind = "combined"
        /\ BagIn(Err("closeClient", 0), closeRet[c].errors)
        /\ \E m \in Metrics : BagIn(Err("write", m), closeRet[c].errors)

\* C11: when a Close call returns anything other than the already-closed error,
\* cleanup is over: every timedCollect goroutine has returned, every stream
\* that was opened has been closed, CloseSystemMetrics and CloseClient have
\* been called, s.closed is set and the closeOnCancel goroutine has returned.
C11_CloseReturnsAfterCleanup ==
    \A c \in Callers :
        closePc[c] = "returned"
        => /\ \A i \in 1..Len(openLog) :
                openLog[i].ok => /\ supPc[openLog[i].metric] = "exited"
                                 /\ streamCloses[openLog[i].metric] = 1
           /\ streamWG = 0
           /\ Len(closeSessionLog) = 1
           /\ closeClientCalls = 1
           /\ closed
           /\ watchPc = "exited"
           /\ closeWG = 0

C11_Witness ==
    \E c \in Callers :
        /\ closePc[c] = "returned"
        /\ collectors = MaxCollectors
        /\ Len(openLog) = MaxCollectors
        /\ \A m \in Metrics : supPc[m] = "exited" /\ streamCloses[m] = 1
        /\ closeClientCalls = 1

\* C12: when Start returned the error of a stream that failed to open, a later
\* Close call does not fault, and once it is over the record has been closed
\* with CloseSystemMetrics and the client with CloseClient.
C12_CloseAfterStreamFailure ==
    \A c \in Callers :
        startRet.kind = "openStream"
        => /\ closePc[c] # "panicked"
           /\ closePc[c] \in {"returned", "rejected"}
                => Len(closeSessionLog) = 1 /\ closeClientCalls = 1

\* C13: when Start returned the error of CreateSystemMetricsRecord, a later
\* Close call does not fault, and once it is over the client has been closed
\* with CloseClient.
C13_CloseAfterRecordFailure ==
    \A c \in Callers :
        startRet.kind = "createRecord"
        => /\ closePc[c] # "panicked"
           /\ closePc[c] \in {"returned", "rejected"} => closeClientCalls = 1

\* C14: when CreateSystemMetricsRecord fails, Start returns that error and has
\* done nothing else: no stream was opened, no timedCollect and no closeOnCancel
\* goroutine was launched, and no streaming context was derived.
C14_RecordFailureDoesNothingElse ==
    BagIn(Err("createRecord", 0), injected)
    => /\ startPc = "err"
       /\ startRet = Err("createRecord", 0)
       /\ id = 0
       /\ openLog = <<>>
       /\ \A m \in Metrics : supPc[m] = "none"
       /\ watchPc = "none"
       /\ streamWG = 0 /\ closeWG = 0
       /\ streamingCancel = "nil"
       /\ ~streamingCancelled

C14_Witness ==
    /\ BagIn(Err("createRecord", 0), injected)
    /\ startRet = Err("createRecord", 0)
    /\ collectors = MaxCollectors
    /\ outerCancelled

\* C15: when the k-th StreamSystemMetrics call of Start fails, Start has
\* cancelled the streaming context and returns that error, no stream after the
\* k-th is opened, and each of the k-1 timedCollect goroutines already launched
\* eventually returns after closing its own stream.
C15_StreamFailureStopsStart ==
    /\ [](\A k \in Metrics :
            BagIn(Err("openStream", k), injected)
            => /\ startPc = "err"
               /\ startRet = Err("openStream", k)
               /\ streamingCancelled
               /\ Len(openLog) = k
               /\ \A m \in Metrics : m >= k => supPc[m] = "none"
               /\ \A m \in Metrics : m < k => supPc[m] # "none")
    /\ \A k \in Metrics : \A m \in Metrics :
            (BagIn(Err("openStream", k), injected) /\ m < k)
            ~> (supPc[m] = "exited" /\ streamCloses[m] = 1)

C15_Witness ==
    /\ startRet = Err("openStream", MaxCollectors)
    /\ streamingCancelled
    /\ \A m \in 1..(MaxCollectors - 1) : supPc[m] = "exited" /\ streamCloses[m] = 1

\* C16: of the Close calls issued on a started instance, overlapping or not, at
\* most one returns s.catcher.Resolve(); every other call that is over returned
\* the already-closed error.
C16_AtMostOneCloseResolves ==
    startPc = "ok"
    => /\ Cardinality({c \in Callers : closePc[c] = "returned"}) <= 1
       /\ \A c, d \in Callers :
            (c # d /\ closePc[c] = "returned" /\ closePc[d] \notin {"idle", "cancel", "wait"})
            => closePc[d] = "rejected" /\ closeRet[d] = AlreadyClosed

\* C17: after a successful Start, when the context given to Start is cancelled
\* and Close is never called, closeOnCancel takes the case of the outer context
\* and, once it has returned, has logged s.catcher.Resolve() after cleanup, so
\* that every error recorded during the run is in the log.
C17_CancelWithoutCloseLogs ==
    ( /\ startPc = "ok"
      /\ outerCancelled
      /\ \A c \in Callers : closePc[c] = "idle"
      /\ watchPc = "exited" )
    => /\ watchBranch = "outer"
       /\ logged = <<Resolve(catcher)>>

\* C18: once s.closed is set, no step of a further Start call creates a record,
\* opens a stream, or launches a timedCollect or closeOnCancel goroutine.
C18_NoRestartAfterClosed ==
    [][closed => /\ records' = records
                 /\ openLog' = openLog
                 /\ streamWG' <= streamWG
                 /\ closeWG' <= closeWG]_vars

\* C19: over any sequence of Start and Close calls on one instance,
\* CreateSystemMetricsRecord succeeds at most once, and CloseSystemMetrics is
\* never called for two different record ids.
C19_AtMostOneRecord ==
    /\ records <= 1
    /\ \A i, j \in 1..Len(closeSessionLog) : closeSessionLog[i].id = closeSessionLog[j].id

\* C20: validate returns nil exactly when the task is present, the interval is
\* not negative, there is at least one metricCollector, exactly one of Comm and
\* Conn is set, and the flush interval and the buffer size are not negative;
\* when it returns nil a zero interval has become one minute and every other
\* interval is as it was.
C20_ValidateAcceptsIff ==
    valRet.kind # "none"
    => /\ valRet = NoErr
            <=> /\ optsIn.Task
                /\ optsIn.Interval >= 0
                /\ Len(optsIn.Collectors) >= 1
                /\ optsIn.Comm # optsIn.Conn
                /\ optsIn.BufferTimedFlushInterval >= 0
                /\ optsIn.MaxBufferSize >= 0
       /\ valRet = NoErr
            => opts.Interval = IF optsIn.Interval = 0 THEN Minute ELSE optsIn.Interval

C20_Witness ==
    /\ valRet = NoErr
    /\ optsIn.Interval = 0
    /\ opts.Interval = Minute
    /\ optsIn.Conn
    /\ Len(optsIn.Collectors) = MaxCollectors

\* C21: validate rejects every options value that holds a metricCollector
\* whose Format() is not one of the five dataFormat values.
C21_InvalidFormatRejected ==
    valRet = NoErr
    => \A i \in 1..Len(optsIn.Collectors) : dataFormatValidate(optsIn.Collectors[i]) = NoErr

\* C22: when validate rejects the options, newSystemMetricsCollector returns
\* an error and no instance, and has called neither setupCedarClient nor
\* NewSystemMetricsClientWithExistingConnection.
C22_RejectedAcquiresNothing ==
    valRet.kind \notin {"none", "nil"}
    => /\ ctorRet = NotBuilt("invalidOptions")
       /\ clientCalls = <<>>

C22_Witness ==
    /\ valRet = Err("client", 0)
    /\ optsIn.Comm /\ optsIn.Conn
    /\ ctorRet = NotBuilt("invalidOptions")
    /\ clientCalls = <<>>

\* The catcher has been resolved, by closeOnCancel for the log or by Close for
\* its return value.
Resolved == logged # <<>> \/ \E c \in Callers : closePc[c] = "returned"

\* C23: every s.catcher.Resolve(), by Close or by closeOnCancel, comes after
\* every timedCollect goroutine has returned and cleanup has made its last
\* s.catcher.Add: nothing is added to the catcher during or after a Resolve.
C23_ResolveAfterAllAdds ==
    /\ [](Resolved => /\ \A m \in Metrics : Configured(m) => supPc[m] = "exited"
                      /\ streamWG = 0
                      /\ watchPc \in {"done", "exited"}
                      /\ closeClientCalls = 1)
    /\ [][Resolved' => catcher' = catcher]_vars

C23_Witness ==
    /\ logged # <<>>
    /\ \E c \in Callers : closePc[c] = "returned" /\ closeRet[c] = logged[1]
    /\ BagCardinality(catcher) = MaxFaults
    /\ BagIn(Err("closeClient", 0), catcher)

\* C24: once the streaming context is done, a timedCollect goroutine that is
\* at its select calls neither Collect nor Write and adds no collect or write
\* error to the catcher, also when its timer is due.
C24_NoCollectAfterCancel ==
    [][\A m \in Metrics :
         (StreamingDone /\ supPc[m] = "select")
         => /\ collects'[m] = collects[m]
            /\ appended'[m] = appended[m]
            /\ KindsOf(OfMetric(catcher', m), {"collect", "write"})
                 = KindsOf(OfMetric(catcher, m), {"collect", "write"})]_vars

\* The number of copies of error e in bag b.
Count(b, e) == IF BagIn(e, b) THEN b[e] ELSE 0

\* C25: on every way out of timedCollect (ctx.Done(), a failed Collect, a
\* failed Write, a panic in the loop) the goroutine closes its stream exactly
\* once, adds the error of stream.Close() if there is one, adds one error for
\* a panic instead of letting it escape, and calls s.stream.Done() exactly
\* once, after the close; nothing is written to a stream after its close.
C25_SupervisorExit ==
    /\ [](\A m \in Metrics :
            /\ streamCloses[m] <= 1
            /\ signals[m] <= 1
            /\ signals[m] = 1 => streamCloses[m] = 1
            /\ supPc[m] \in {"done", "exited"} => streamCloses[m] = 1
            /\ supPc[m] = "exited" <=> signals[m] = 1
            /\ streamCloses[m] = 1
                 => /\ Count(catcher, Err("streamClose", m)) = Count(injected, Err("streamClose", m))
                    /\ Count(catcher, Err("panic", m)) = Count(injected, Err("panic", m))
                    /\ Count(catcher, Err("panic", m)) <= 1)
    /\ [][\A m \in Metrics : streamCloses[m] = 1 => appended'[m] = appended[m]]_vars

C25_Witness ==
    /\ collectors = MaxCollectors
    /\ \A m \in Metrics : supPc[m] = "exited" /\ signals[m] = 1 /\ streamCloses[m] = 1
    /\ \E m \in Metrics : BagIn(Err("panic", m), catcher)
    /\ \E m \in Metrics : BagIn(Err("streamClose", m), catcher)

C27_CancelAfterStreamFailureCleans ==
    (startRet.kind = "openStream" /\ outerCancelled /\ \A c \in Callers : closePc[c] = "idle")
        ~> (Len(closeSessionLog) = 1 /\ closeClientCalls = 1)

\* Caller c's call of Close is past s.mu.Lock() and the check of s.closed.
Checked(c) == closePc[c] \in {"cancel", "wait", "returned", "rejected"}

\* The part of C28 that does not depend on when s.mu is acquired: after a
\* cancellation of the outer context, a Close called once cleanup is over
\* returns the already-closed error and changes nothing, and a Close that
\* returns the catcher's errors does so after cleanup.
ClosedCallRejected ==
    /\ [](\A c \in Callers :
            /\ (watchBranch = "outer" /\ callPhase[c] = "closed" /\ Checked(c))
                 => closePc[c] = "rejected" /\ closeRet[c] = AlreadyClosed
            /\ closePc[c] = "returned"
                 => closed /\ watchPc = "exited" /\ closeRet[c] = Resolve(catcher))
    /\ [][\A c \in Callers :
            (closePc'[c] = "rejected" /\ closePc[c] # "rejected")
            => /\ closeRet'[c] = AlreadyClosed
               /\ <<fields, ctxs, cleanupHist, supHist>>' = <<fields, ctxs, cleanupHist, supHist>>]_vars

\* C28 as stated: a Close called after the cleanup that a cancellation of the
\* outer context started is over returns the already-closed error and releases
\* nothing; a Close called while that cleanup is in progress waits for it and
\* returns s.catcher.Resolve().
C28_CloseDuringCleanupWaits ==
    /\ ClosedCallRejected
    /\ [](\A c \in Callers :
            (watchBranch = "outer" /\ callPhase[c] = "cleanup" /\ Checked(c))
            => closePc[c] # "rejected")

\* C28 amended: a Close called while that cleanup is in progress returns
\* s.catcher.Resolve(), after waiting, when it reads s.closed before cleanup
\* sets it, and the already-closed error when s.mu.Lock() returns after
\* cleanup has set s.closed.
C28_CloseDuringCleanupRaces ==
    /\ ClosedCallRejected
    /\ [][\A c \in Callers :
            (callPhase[c] = "cleanup" /\ closePc[c] = "lock" /\ closePc'[c] # "lock")
            => IF closed
               THEN closePc'[c] = "rejected" /\ closeRet'[c] = AlreadyClosed
               ELSE closePc'[c] = "cancel"]_vars

C28_Witness ==
    /\ watchBranch = "outer"
    /\ \E c, d \in Callers :
        /\ callPhase[c] = "cleanup" /\ closePc[c] = "returned"
        /\ callPhase[d] = "cleanup" /\ closePc[d] = "rejected"
        /\ closeRet[c].kind = "combined"

\* The host has asked for the end of the run: a Close call has got to
\* s.streamingCancel(), or the context given to Start is cancelled.
TerminationRequested ==
    outerCancelled \/ \E c \in Callers : closePc[c] \in {"cancel", "wait", "returned"}

\* C29: closeOnCancel leaves its select, and CloseSystemMetrics and CloseClient
\* are called, only after Close was called or the outer context was cancelled;
\* timedCollect goroutines that fail on their own, even all of them, leave the
\* instance running.
C29_CleanupOnlyOnRequest ==
    (\/ watchPc \notin {"none", "select"}
     \/ closeSessionLog # <<>>
     \/ closeClientCalls > 0
     \/ closed)
    => TerminationRequested

C29_Witness ==
    /\ collectors = MaxCollectors
    /\ \A m \in Metrics : supPc[m] = "exited" /\ OwnFailure(m)
    /\ ~TerminationRequested
    /\ watchPc = "select"
    /\ closeSessionLog = <<>> /\ closeClientCalls = 0 /\ ~closed

\* C30: cleanup calls CloseSystemMetrics before CloseClient, calls CloseClient
\* also when CloseSystemMetrics failed, sets s.closed only after both calls
\* have returned, and skips CloseSystemMetrics exactly when s.id is empty.
C30_CleanupOrder ==
    /\ [](/\ closeClientCalls > 0 /\ id # 0 => Len(closeSessionLog) = 1
          /\ closed => closeClientCalls = 1 /\ (id # 0 => Len(closeSessionLog) = 1)
          /\ (BagIn(Err("closeSession", 0), injected) /\ watchPc \notin {"session", "client"})
                => closeClientCalls = 1)
    /\ [][/\ Len(closeSessionLog') > Len(closeSessionLog) => closeClientCalls = 0 /\ ~closed'
          /\ closeClientCalls' > closeClientCalls => ~closed /\ ~closed'
          /\ (watchPc = "session" /\ watchPc' # "session")
                => (closeSessionLog' = closeSessionLog <=> id = 0)]_vars

C30_Witness ==
    /\ closed
    /\ BagIn(Err("closeSession", 0), catcher)
    /\ Len(closeSessionLog) = 1
    /\ closeClientCalls = 1
    /\ closeSessionLog[1].id = id

\* The streams of collector m that StreamSystemMetrics has returned.
Opened(m) == {i \in 1..Len(openLog) : openLog[i].metric = m /\ openLog[i].ok}

\* C31: s.closed, once true, never becomes false again, and in every state
\* where s.closed is true no timedCollect goroutine is running and every
\* stream that was opened has been closed.
C31_ClosedIsFinal ==
    /\ [][closed => closed']_vars
    /\ [](closed => \A m \in Metrics :
                        /\ supPc[m] \in {"none", "exited"}
                        /\ streamCloses[m] = Cardinality(Opened(m)))

\* C32: CreateSystemMetricsRecord has succeeded before any call of
\* StreamSystemMetrics, every such call carries the id the record call
\* returned, and a collector's stream is open before its first Collect.
C32_RecordThenStreamThenCollect ==
    /\ [](/\ openLog # <<>> => records = 1
          /\ \A i \in 1..Len(openLog) : openLog[i].id = records /\ openLog[i].id # 0
          /\ \A m \in Metrics : collects[m] > 0 => Opened(m) # {})
    /\ [][/\ Len(openLog') > Len(openLog) => records' = records /\ records = 1
          /\ \A m \in Metrics : collects'[m] > collects[m] => Opened(m) # {}]_vars

C32_Witness ==
    /\ collectors = MaxCollectors
    /\ Len(openLog) = MaxCollectors
    /\ \A i \in 1..Len(openLog) : openLog[i].id = id /\ openLog[i].ok
    /\ \A m \in Metrics : collects[m] > 0

\* C33: with the discrete clock, the first Collect of a timedCollect goroutine
\* can happen at the time of its launch (time.NewTimer(0)), and after a
\* successful Collect and Write the next Collect of the same goroutine comes
\* at least s.interval after the end of the Write (timer.Reset(s.interval)).
C33_CollectTiming ==
    /\ [](\A m \in Metrics : collects[m] > 0 => now >= (collects[m] - 1) * interval)
    /\ [][\A m \in Metrics :
            /\ (supPc[m] = "none" /\ supPc'[m] = "select") => timerAt'[m] = now
            /\ Len(appended'[m]) > Len(appended[m])
                 => supPc'[m] = "select" /\ timerAt'[m] = now + interval
            /\ (supPc[m] = "select" /\ supPc'[m] = "select") => timerAt'[m] = timerAt[m]
            /\ collects'[m] > collects[m] => timerAt[m] # NoTimer /\ timerAt[m] <= now]_vars

C33_Witness ==
    \E m \in Metrics :
        /\ collects[m] = MaxTime + 1
        /\ Len(appended[m]) = MaxTime + 1
        /\ now = MaxTime * interval

\* The rules of validate that options o break, numbered in the order task,
\* interval, collectors, client, buffer tuning.
Broken(o) ==
    {r \in 1..5 :
        \/ r = 1 /\ ~o.Task
        \/ r = 2 /\ o.Interval < 0
        \/ r = 3 /\ Len(o.Collectors) = 0
        \/ r = 4 /\ o.Comm = o.Conn
        \/ r = 5 /\ (o.BufferTimedFlushInterval < 0 \/ o.MaxBufferSize < 0)}

\* The rule an error of validate belongs to.
RuleOf(err) ==
    CASE err.kind = "task" -> 1
      [] err.kind = "interval" -> 2
      [] err.kind = "collectors" -> 3
      [] err.kind = "client" -> 4
      [] err.kind \in {"flush", "buffer"} -> 5

\* C34: when the options break several rules of validate, the error returned
\* is that of the first broken rule in the order task, interval, collectors,
\* client, buffer tuning.
C34_FirstBrokenRuleReported ==
    (valRet.kind # "none" /\ Broken(optsIn) # {})
    => /\ valRet # NoErr
       /\ \A r \in Broken(optsIn) : RuleOf(valRet) <= r
       /\ RuleOf(valRet) \in Broken(optsIn)

C34_Witness ==
    /\ valRet = Err("collectors", 0)
    /\ Broken(optsIn) = {3, 4, 5}

\* C35: when validate rejects the options it leaves every field of them as it
\* was, Interval included; the only change it ever makes is to replace a zero
\* Interval by one minute in options it accepts.
C35_ValidateNoSideEffect ==
    /\ valRet.kind \notin {"none", "nil"} => opts = optsIn
    /\ valRet = NoErr
         => opts = IF optsIn.Interval = 0 THEN [optsIn EXCEPT !.Interval = Minute] ELSE optsIn

\* Value x satisfies constraint c of a query document.
Satisfies(x, c) ==
    CASE c.op = "$eq" -> x = c.value
      [] c.op = "$gt" -> x > c.value
      [] c.op = "$lt" -> x < c.value

\* Document d matches query document q: every constraint of q holds.
Matches(d, q) == \A k \in DOMAIN q : Satisfies(d[k], q[k])

\* Document d comes strictly after the start-at values of fields fs, from the
\* i-th field on, in the lexicographic order of the fields' operators.
RECURSIVE After(_, _, _)
After(d, fs, i) ==
    IF i > Len(fs) THEN FALSE
    ELSE \/ Satisfies(d[fs[i].Field], [op |-> fs[i].Operator, value |-> fs[i].Value])
         \/ d[fs[i].Field] = fs[i].Value /\ After(d, fs, i + 1)

\* The fields of fs have distinct names.
Distinct(fs) == \A i, j \in 1..Len(fs) : fs[i].Field = fs[j].Field => i = j

\* C36: for n fields with distinct names, buildPaginationOrBranches returns n
\* branches, branch i holding equality with the start-at value for the fields
\* before the i-th and the i-th field's operator on its start-at value; a
\* document matches one of the branches exactly when it comes strictly after
\* the start-at values in the lexicographic order of the operators.
C36_PaginationBranches ==
    (call.fn = "buildPaginationOrBranches" /\ result.kind # "none" /\ Distinct(call.fields))
    => LET fs == call.fields
           bs == result.value
       IN  /\ result.kind = "value"
           /\ Len(bs) = Len(fs)
           /\ \A i \in 1..Len(fs) :
                /\ DOMAIN bs[i] = {fs[j].Field : j \in 1..i}
                /\ \A j \in 1..(i - 1) : bs[i][fs[j].Field] = Equals(fs[j].Value)
                /\ bs[i][fs[i].Field] = [op |-> fs[i].Operator, value |-> fs[i].Value]
           /\ (\E i \in 1..Len(bs) : Matches(call.doc, bs[i])) <=> After(call.doc, fs, 1)

C36_Witness ==
    /\ call.fn = "buildPaginationOrBranches"
    /\ result.kind = "value"
    /\ Len(call.fields) = MaxFields
    /\ Distinct(call.fields)
    /\ Len(result.value) = MaxFields
    /\ Matches(call.doc, result.value[MaxFields])
    /\ ~Matches(call.doc, result.value[1])

\* Time t is midnight UTC.
IsUTCDay(t) == t % DayHours = 0

RECURSIVE SwitchFrom(_, _, _)
SwitchFrom(branches, i, d) ==
    IF i > Len(branches) THEN NoUpper
    ELSE IF d >= branches[i].gte /\ (branches[i].lt = NoUpper \/ d < branches[i].lt)
         THEN branches[i].then
         ELSE SwitchFrom(branches, i + 1, d)

\* C38: buildAddFieldsDateStage returns a stage for every start, end and
\* numDays, also when numDays > 1 and there is no boundary; when numDays > 1
\* the stage has one $switch branch per boundary and maps every date at or
\* after the start day to the greatest boundary not after that date.
C38_StageForEveryInput ==
    (call.fn = "buildAddFieldsDateStage" /\ result.kind # "none")
    => /\ result.kind = "value"
       /\ call.numDays > 1
          => LET bs == dateBoundaries(call.start, call.end, call.numDays)
                 at == SwitchFrom(result.value.branches, 1, call.date)
             IN  /\ result.value.stage = "switch"
                 /\ Len(result.value.branches) = Len(bs)
                 /\ call.date >= GetUTCDay(call.start)
                    => /\ \E k \in 1..Len(bs) : bs[k] = at
                       /\ at <= call.date
                       /\ \A k \in 1..Len(bs) : bs[k] <= call.date => bs[k] <= at

\* The same, for the calls that have a boundary.
C38_StageWhenBoundary ==
    ( /\ call.fn = "buildAddFieldsDateStage"
      /\ result.kind # "none"
      /\ (call.numDays > 1 => GetUTCDay(call.start) < GetUTCDay(call.end)) )
    => C38_StageForEveryInput

====
